---- MODULE Spec2Model ----
(***************************************************************************)
(* CiviTrack issue lifecycle: the issue/location/status-log/flag tables,   *)
(* the Express handlers of controllers/issueController.ts that read and    *)
(* write them through Sequelize, and the status-request review workflow.   *)
(*                                                                         *)
(* The specifications share the variables:                                 *)
(*   Spec           every handler runs to completion, one request at a     *)
(*                  time; a store failure may be injected at each query.   *)
(*   SpecFields     updateIssue with any of title, status, location and    *)
(*                  files, next to flagIssue.                              *)
(*   SpecDelete     status changes, flags and deletes.                     *)
(*   SpecReview     the status-request workflow (request, review) next to  *)
(*                  status updates and deletes.                            *)
(*   SpecConc       two requests in flight, interleaved at their await     *)
(*                  points; the store at READ COMMITTED, its default.      *)
(*   SpecConcDelete deleteIssue in flight with flagIssue, a status update  *)
(*                  and requestChange.                                     *)
(*   SpecReviewConc two reviews of one request in flight.                  *)
(*   SpecFlags      flagIssue and resolveFlag next to status changes.      *)
(*   SpecNear       getNearbyIssues over a store of places around (0, 0).  *)
(*   SpecWithRetry  one call of withRetry, step by step.                   *)
(*   SpecBackoff    one call of retryWithBackoff, step by step.            *)
(*   SpecRequest    one request through the retrying axios instance.       *)
(*   SpecAuth       the auth provider of hooks/useAuth.tsx.                *)
(*   SpecHook       one useApi hook with overlapping execute calls.        *)
(***************************************************************************)
EXTENDS Integers, Sequences, FiniteSets, TLC

\* ---------------------------------------------------------------- bounds
MaxLocations == 2
MaxLogs == 2
MaxFlags == 1
MaxConcLogs == 3
MaxConcFlags == 2

\* ------------------------------------------------------------- universes
Users == {"u1", "u2", "admin"}
Role(u) == IF u = "admin" THEN "admin" ELSE "user"

IssueIds == {"i1", "i2"}
Seeded == {"i1"}
LocName(n) == "l" \o ToString(n)
LocIds == {LocName(n) : n \in 1..MaxLocations}
ReqIds == {"r1"}
Procs == {1, 2}

REPORTED == "reported"
UNDER_REVIEW == "under_review"
IN_PROGRESS == "in_progress"
RESOLVED == "resolved"
CLOSED == "closed"
IssueStatus == {REPORTED, UNDER_REVIEW, IN_PROGRESS, RESOLVED, CLOSED}

Null == "null"
Undefined == "undefined"
Absent == ""

Titles == {"streetlight"}
Coords == {"la"}
Reasons == {"spam"}
Comments == {"checked"}

\* the attributes Issue.init declares; an instance exposes these and no others
IssueAttributes == {"title", "status", "photos", "reportedBy", "locationId"}

VARIABLES issues, locations, statusLogs, flags, statusRequests, reply, procs,
          client
vars == <<issues, locations, statusLogs, flags, statusRequests, reply, procs, client>>
tables == <<issues, locations, statusLogs, flags, statusRequests>>

\* ------------------------------------------------------------ the store
DB == [issues |-> issues, locations |-> locations, statusLogs |-> statusLogs,
       flags |-> flags, statusRequests |-> statusRequests]

SetDB(d) ==
    /\ issues' = d.issues
    /\ locations' = d.locations
    /\ statusLogs' = d.statusLogs
    /\ flags' = d.flags
    /\ statusRequests' = d.statusRequests

Remove(f, k) == [x \in DOMAIN f \ {k} |-> f[x]]
SelectNot(s, Drop(_)) == SelectSeq(s, LAMBDA r : ~Drop(r))

\* instance.get(name): a declared attribute's value, undefined otherwise
IssueGet(row, name) == IF name \in DOMAIN row THEN row[name] ELSE Undefined

\* what Model.build keeps of the values passed to Issue.create: keys that
\* are not declared attributes are dropped, declared ones not passed are null
IssueBuild(values) ==
    [a \in IssueAttributes |-> IF a \in DOMAIN values THEN values[a]
                               ELSE IF a = "photos" THEN <<>> ELSE Null]

\* allowNull: false on every attribute; isIn on status; FK on locationId
IssueValid(row, d) ==
    /\ \A a \in IssueAttributes : row[a] # Null
    /\ row.title # Absent
    /\ row.status \in IssueStatus
    /\ row.locationId \in DOMAIN d.locations

\* StatusLog.init: newStatus in the enum, oldStatus in the enum or null,
\* issueId references an existing issue
StatusLogValid(row, d) ==
    /\ row.issueId \in DOMAIN d.issues
    /\ row.newStatus \in IssueStatus
    /\ row.oldStatus \in IssueStatus \cup {Null}

\* a flags table without the foreign key to issues
FlagValid_NoForeignKey(row, d) == row.reason # Absent

\* Flag.init: reason notEmpty, issueId references an existing issue; the
\* model declares no unique index on (issueId, userId)
FlagValid(row, d) ==
    /\ row.issueId \in DOMAIN d.issues
    /\ row.reason # Absent

\* utils/response.ts: the status code and message a handler answers with
Response(op, code, msg) == [op |-> op, code |-> code, msg |-> msg]

successResponse(op, msg) == Response(op, 200, msg)
createdResponse(op, msg) == Response(op, 201, msg)
errorResponse(op, msg) == Response(op, 500, msg)
\* a missing row answered as a bad request
notFoundResponse_AsBadRequest(op, msg) == Response(op, 400, msg)
notFoundResponse(op, msg) == Response(op, 404, msg)
badRequestResponse(op, msg) == Response(op, 400, msg)
forbiddenResponse(op, msg) == Response(op, 403, msg)
conflictResponse(op, msg) == Response(op, 409, msg)

\* a rollback that leaves the statements already executed in place
Rollback_KeepsWork(before, work) == work

\* a transaction that fails is rolled back to the state it started from
Rollback(before, work) == before

LogsOf(logs, i) == SelectSeq(logs, LAMBDA r : r.issueId = i)
FlagsOf(fl, i, u) == SelectSeq(fl, LAMBDA r : r.issueId = i /\ r.userId = u)

\* ---------------------------------------------------------- the client
\* the browser side: a retry loop of utils/apiRetry that has not been called
NoRetry == [pc |-> "none"]
\* and no request sent through the axios instance of services/api
NoRequest == [pc |-> "none"]
\* useAuthProvider before its effect has run, with nothing in localStorage
NoAuth ==
    [mounted |-> FALSE, token |-> FALSE, user |-> Null, isAuthenticated |-> FALSE,
     loading |-> TRUE, error |-> Null, me |-> 0, login |-> 0, register |-> 0]
\* useApi(apiCall) as useState leaves it: no data, not loading, no error
NoHook ==
    [resetOnFetch |-> TRUE, data |-> Null, loading |-> FALSE, error |-> Null,
     calls |-> <<>>]
InitClient == [retry |-> NoRetry, request |-> NoRequest, auth |-> NoAuth, hook |-> NoHook]

\* ------------------------------------------------------------------ Init
InitIssue(i) ==
    [title |-> "pothole", status |-> REPORTED, photos |-> <<"a.jpg">>,
     reportedBy |-> "u1", locationId |-> LocName(1)]

InitLog(i) ==
    [issueId |-> i, userId |-> InitIssue(i).reportedBy, oldStatus |-> Null,
     newStatus |-> REPORTED, comment |-> "Issue reported"]

Init ==
    /\ \E present \in SUBSET Seeded :
        /\ issues = [i \in present |-> InitIssue(i)]
        /\ locations = [l \in {InitIssue(i).locationId : i \in present} |-> "nyc"]
        /\ statusLogs = (IF "i1" \in present THEN <<InitLog("i1")>> ELSE <<>>)
    /\ flags = <<>>
    /\ statusRequests = <<>>
    /\ reply = Response("none", 0, "")
    /\ procs = [p \in Procs |-> [pc |-> "idle"]]
    /\ client = InitClient

\* ------------------------------------------------- JavaScript operators
Truthy(v) == v # Absent /\ v # Undefined /\ v # Null
Or(a, b) == IF Truthy(a) THEN a ELSE b

\* --------------------------------------------------------- createIssue
CreateFailures == {"none", "location", "issue", "log"}

\* createIssueValidation: title (and description, coordinates) required
CreateValid(title, coord) == title # Absent /\ coord # Absent

\* the values createIssue passes to Issue.create
CreateIssueValues(u, title, lid) ==
    [title |-> title, status |-> REPORTED, userId |-> u, locationId |-> lid,
     images |-> "[]"]

CreationLog(iid, u) ==
    [issueId |-> iid, userId |-> u, oldStatus |-> Null, newStatus |-> REPORTED,
     comment |-> "Issue reported"]

\* Location.create, Issue.create and StatusLog.create are three separate
\* autocommitted statements: the handler opens no transaction
createIssue(d, u, title, coord, lid, iid, fail) ==
    IF ~CreateValid(title, coord)
    THEN [db |-> d, reply |-> badRequestResponse("createIssue", "Validation error")]
    ELSE IF fail = "location"
    THEN [db |-> d, reply |-> errorResponse("createIssue", "Error creating issue")]
    ELSE LET d1 == [d EXCEPT !.locations = lid :> coord @@ @]
             row == IssueBuild(CreateIssueValues(u, title, lid))
         IN  IF fail = "issue" \/ ~IssueValid(row, d1)
             THEN [db |-> d1, reply |-> errorResponse("createIssue", "Error creating issue")]
             ELSE LET d2 == [d1 EXCEPT !.issues = iid :> row @@ @]
                      log == CreationLog(iid, u)
                  IN  IF fail = "log" \/ ~StatusLogValid(log, d2)
                      THEN [db |-> d2, reply |-> errorResponse("createIssue", "Error creating issue")]
                      ELSE [db |-> [d2 EXCEPT !.statusLogs = Append(@, log)],
                            reply |-> createdResponse("createIssue", "Issue created successfully")]

\* the primary keys the store hands out next
FreshLocation(d) ==
    LocName(CHOOSE n \in 1..MaxLocations :
                /\ LocName(n) \notin DOMAIN d.locations
                /\ \A m \in 1..(n - 1) : LocName(m) \in DOMAIN d.locations)
FreshIssue(d) == CHOOSE i \in IssueIds \ DOMAIN d.issues : TRUE

CreateIssueCall ==
    \E u \in Users, title \in Titles \cup {Absent}, coord \in Coords,
       fail \in CreateFailures :
      LET lid == FreshLocation(DB)
          iid == FreshIssue(DB)
      IN
        /\ LocIds \ DOMAIN locations # {}
        /\ IssueIds \ DOMAIN issues # {}
        /\ LET out == createIssue(DB, u, title, coord, lid, iid, fail)
           IN  /\ Len(out.db.statusLogs) <= MaxLogs
               /\ SetDB(out.db) /\ reply' = out.reply
        /\ UNCHANGED <<procs, client>>

\* --------------------------------------------------------- updateIssue
UpdateFailures == {"none", "log", "location", "issue", "commit"}

\* request bodies: any of title, status and coordinates may be supplied;
\* req.files is set for multipart requests only
Bodies ==
    [title : Titles \cup {Absent},
     status : IssueStatus \cup {Absent, "bogus"},
     coord : Coords \cup {Absent},
     statusComment : {Absent},
     files : BOOLEAN]

\* updateIssueValidation: status, when present, is one of the enum values
UpdateValid(body) == body.status = Absent \/ body.status \in IssueStatus

\* issue.userId !== user.id && user.role !== 'admin'
UpdateForbidden_Never(issue, u) == FALSE

UpdateForbidden(issue, u) == IssueGet(issue, "userId") # u /\ Role(u) # "admin"

\* a log row for every update that names a status
StatusChanges_AnyStatus(issue, body) == Truthy(body.status)

StatusChanges(issue, body) == Truthy(body.status) /\ body.status # issue.status

\* a log row that records the requested status as the old one too
UpdateLog_OldIsNew(issue, id, u, body) ==
    [issueId |-> id, userId |-> u, oldStatus |-> body.status,
     newStatus |-> body.status,
     comment |-> Or(body.statusComment,
                    "Status updated from " \o issue.status \o " to " \o body.status)]

\* StatusLog.create({ issueId, userId, oldStatus, newStatus, comment })
UpdateLog(issue, id, u, body) ==
    [issueId |-> id, userId |-> u, oldStatus |-> issue.status,
     newStatus |-> body.status,
     comment |-> Or(body.statusComment,
                    "Status updated from " \o issue.status \o " to " \o body.status)]

\* the rows as they stand after each statement of the transaction
\* a status log that overwrites the latest row instead of appending one
UpdateAfterLog_Overwrites(d, issue, id, u, body) ==
    IF StatusChanges(issue, body)
    THEN [d EXCEPT !.statusLogs =
              Append(SubSeq(@, 1, Len(@) - 1), UpdateLog(issue, id, u, body))]
    ELSE d

UpdateAfterLog(d, issue, id, u, body) ==
    IF StatusChanges(issue, body)
    THEN [d EXCEPT !.statusLogs = Append(@, UpdateLog(issue, id, u, body))]
    ELSE d

UpdateAfterLocation(w, issue, body) ==
    IF Truthy(body.coord) /\ issue.locationId \in DOMAIN w.locations
    THEN [w EXCEPT !.locations[issue.locationId] = Or(body.coord, @)]
    ELSE w

\* an update that writes the title of the body even when it is absent
UpdateAfterIssue_NoDefault(w, issue, id, body) ==
    [w EXCEPT !.issues[id] = [@ EXCEPT !.title = body.title,
                                       !.status = Or(body.status, issue.status)]]

\* issue.update: title || issue.title, status || issue.status; the images
\* key is no attribute of the model and changes no column
UpdateAfterIssue(w, issue, id, body) ==
    [w EXCEPT !.issues[id] = [@ EXCEPT !.title = Or(body.title, issue.title),
                                       !.status = Or(body.status, issue.status)]]

\* [...issue.images, ...] throws when req.files is set and images is not an
\* attribute of the instance
SpreadThrows(issue, body) == body.files /\ IssueGet(issue, "images") = Undefined

updateIssue(d, u, id, body, fail) ==
    IF ~UpdateValid(body)
    THEN [db |-> d, reply |-> badRequestResponse("updateIssue", "Validation error")]
    ELSE IF id \notin DOMAIN d.issues
    THEN [db |-> d, reply |-> notFoundResponse("updateIssue", "Issue not found")]
    ELSE LET issue == d.issues[id] IN
      IF UpdateForbidden(issue, u)
      THEN [db |-> d, reply |-> badRequestResponse("updateIssue", "You are not authorized to update this issue")]
      ELSE LET w1 == UpdateAfterLog(d, issue, id, u, body)
               ok1 == StatusChanges(issue, body) =>
                         fail # "log" /\ StatusLogValid(UpdateLog(issue, id, u, body), d)
               w2 == UpdateAfterLocation(w1, issue, body)
               ok2 == Truthy(body.coord) => fail # "location"
               w3 == UpdateAfterIssue(w2, issue, id, body)
               ok3 == fail # "issue" /\ ~SpreadThrows(issue, body)
               ok4 == fail # "commit"
               work == IF ~ok1 THEN d ELSE IF ~ok2 THEN w1 ELSE IF ~ok3 THEN w2 ELSE w3
           IN  IF ok1 /\ ok2 /\ ok3 /\ ok4
               THEN [db |-> w3, reply |-> successResponse("updateIssue", "Issue updated successfully")]
               ELSE [db |-> Rollback(d, work),
                     reply |-> errorResponse("updateIssue", "Error updating issue")]

\* the statements a request with this body reaches, at which the store may fail
UpdateFailuresFor(body) ==
    IF ~UpdateValid(body) \/ body.files THEN {"none"}
    ELSE {"none", "issue", "commit"}
         \cup (IF Truthy(body.status) THEN {"log"} ELSE {})
         \cup (IF Truthy(body.coord) THEN {"location"} ELSE {})

\* JSON requests that set the status and/or the coordinates
StatusBodies == {b \in Bodies : b.title = Absent /\ ~b.files}

UpdateIssueCall ==
    \E u \in Users, id \in IssueIds, body \in StatusBodies :
      \E fail \in UpdateFailuresFor(body) :
        /\ LET out == updateIssue(DB, u, id, body, fail)
           IN  /\ Len(out.db.statusLogs) <= MaxLogs
               /\ SetDB(out.db) /\ reply' = out.reply
        /\ UNCHANGED <<procs, client>>

\* JSON and multipart requests with any of title, status, coordinates, files
UpdateFieldsCall ==
    \E u \in Users, id \in IssueIds, body \in Bodies :
        \E fail \in UpdateFailuresFor(body) :
            /\ LET out == updateIssue(DB, u, id, body, fail)
               IN  /\ Len(out.db.statusLogs) <= MaxLogs
                   /\ SetDB(out.db) /\ reply' = out.reply
            /\ UNCHANGED <<procs, client>>

\* --------------------------------------------------------- deleteIssue
DeleteFailures == {"none", "logs", "flags", "issue", "location", "commit"}

\* issue.userId !== user.id && user.role !== 'admin'
DeleteForbidden(issue, u) == IssueGet(issue, "userId") # u /\ Role(u) # "admin"

\* the status_requests table belongs to the issue and goes with it
CascadeStatusRequests(reqs, id) ==
    [r \in {x \in DOMAIN reqs : reqs[x].issueId # id} |-> reqs[r]]

DeleteAfterLogs(d, id) ==
    [d EXCEPT !.statusLogs = SelectSeq(@, LAMBDA r : r.issueId # id)]
\* a delete that leaves the flags of the issue in place
DeleteAfterFlags_Keeps(w, id) == w

DeleteAfterFlags(w, id) ==
    [w EXCEPT !.flags = SelectSeq(@, LAMBDA r : r.issueId # id)]
DeleteAfterIssue(w, id) ==
    [w EXCEPT !.issues = Remove(@, id),
              !.statusRequests = CascadeStatusRequests(@, id)]
DeleteAfterLocation(w, lid) ==
    [w EXCEPT !.locations = Remove(@, lid)]

deleteIssue(d, u, id, fail) ==
    IF id \notin DOMAIN d.issues
    THEN [db |-> d, reply |-> notFoundResponse("deleteIssue", "Issue not found")]
    ELSE LET issue == d.issues[id] IN
      IF DeleteForbidden(issue, u)
      THEN [db |-> d, reply |-> badRequestResponse("deleteIssue", "You are not authorized to delete this issue")]
      ELSE LET w1 == DeleteAfterLogs(d, id)
               w2 == DeleteAfterFlags(w1, id)
               w3 == DeleteAfterIssue(w2, id)
               w4 == DeleteAfterLocation(w3, issue.locationId)
               work == CASE fail = "logs" -> d
                         [] fail = "flags" -> w1
                         [] fail = "issue" -> w2
                         [] fail = "location" -> w3
                         [] OTHER -> w4
           IN  IF fail = "none"
               THEN [db |-> w4, reply |-> successResponse("deleteIssue", "Issue deleted successfully")]
               ELSE [db |-> Rollback(d, work),
                     reply |-> errorResponse("deleteIssue", "Error deleting issue")]

DeleteIssueCall ==
    \E u \in Users, id \in IssueIds, fail \in DeleteFailures :
        /\ LET out == deleteIssue(DB, u, id, fail)
           IN  SetDB(out.db) /\ reply' = out.reply
        /\ UNCHANGED <<procs, client>>

\* ---------------------------------------------------------- getIssueById
getIssueById(d, id) ==
    IF id \notin DOMAIN d.issues
    THEN notFoundResponse("getIssueById", "Issue not found")
    ELSE successResponse("getIssueById", "Issue retrieved successfully")

\* ----------------------------------------------------------- flagIssue
FlagFailures == {"none", "flag"}

\* flagIssueValidation: reason required
FlagRequestValid(reason) == reason # Absent

NewFlag(id, u, reason) ==
    [issueId |-> id, userId |-> u, reason |-> reason, resolved |-> FALSE]

\* a lookup that matches the issue id against the wrong column
existingFlag_WrongColumn(d, id, u) == \E k \in 1..Len(d.flags) :
    d.flags[k].issueId = id /\ d.flags[k].userId = id

\* Flag.findOne({ where: { issueId, userId } })
existingFlag(d, id, u) == \E k \in 1..Len(d.flags) :
    d.flags[k].issueId = id /\ d.flags[k].userId = u

\* a flag that also puts the issue under review
FlagAfterInsert_PutsUnderReview(d, id, u, reason) ==
    [d EXCEPT !.flags = Append(@, NewFlag(id, u, reason)),
              !.issues[id].status = UNDER_REVIEW]

\* Flag.create({ issueId, userId, reason }): one row, in no other table
FlagAfterInsert(d, id, u, reason) ==
    [d EXCEPT !.flags = Append(@, NewFlag(id, u, reason))]

flagIssue(d, u, id, reason, fail) ==
    IF ~FlagRequestValid(reason)
    THEN [db |-> d, reply |-> badRequestResponse("flagIssue", "Validation error")]
    ELSE IF id \notin DOMAIN d.issues
    THEN [db |-> d, reply |-> notFoundResponse("flagIssue", "Issue not found")]
    ELSE IF existingFlag(d, id, u)
    THEN [db |-> d, reply |-> badRequestResponse("flagIssue", "You have already flagged this issue")]
    ELSE IF fail = "flag" \/ ~FlagValid(NewFlag(id, u, reason), d)
    THEN [db |-> d, reply |-> errorResponse("flagIssue", "Error flagging issue")]
    ELSE [db |-> FlagAfterInsert(d, id, u, reason),
          reply |-> successResponse("flagIssue", "Issue flagged successfully")]

FlagIssueCall ==
    \E u \in Users, id \in IssueIds, reason \in Reasons \cup {Absent},
       fail \in FlagFailures :
        /\ LET out == flagIssue(DB, u, id, reason, fail)
           IN  /\ Len(out.db.flags) <= MaxFlags
               /\ SetDB(out.db) /\ reply' = out.reply
        /\ UNCHANGED <<procs, client>>

\* --------------------------------------------------------- resolveFlag
\* FlagModeration.resolveFlag(flagId, adminId): administrator-only; the flag
\* at position flagId is marked resolved (resolvedAt, a timestamp, is left out)
resolveFlag(d, u, flagId) ==
    IF Role(u) # "admin"
    THEN [db |-> d, reply |-> forbiddenResponse("resolveFlag", "Forbidden")]
    ELSE IF flagId \notin 1..Len(d.flags)
    THEN [db |-> d, reply |-> notFoundResponse("resolveFlag", "Flag not found")]
    ELSE [db |-> [d EXCEPT !.flags[flagId].resolved = TRUE],
          reply |-> successResponse("resolveFlag", "Flag resolved")]

ResolveFlagCall ==
    \E u \in Users, flagId \in 1..(MaxFlags + 1) :
        /\ LET out == resolveFlag(DB, u, flagId)
           IN  SetDB(out.db) /\ reply' = out.reply
        /\ UNCHANGED <<procs, client>>

\* ------------------------------------------------------ getNearbyIssues
\* Coordinates are fixed-point numbers in units of 1/10000 degree, radii are
\* whole kilometres, angles are micro-radians, distances are millimetres.
EARTH_RADIUS_KM == 6371
Abs(n) == IF n < 0 THEN -n ELSE n

\* degrees * (Math.PI / 180), for a non-negative angle
toRadians(degrees) == (degrees * 31416) \div 18000

\* Math.cos(toRadians(latitude)) in ten-thousandths, for the latitudes used
QueryLatitudes == {0, 910000}
Cos(latitude) == CASE latitude = 0 -> 10000
                   [] latitude = 910000 -> -175

\* the Haversine central angle c = 2 * atan2(sqrt(a), sqrt(1 - a)). For two
\* points on one meridian a = sin^2(dLat/2), so c = |dLat|; for two points on
\* the equator a = sin^2(dLon/2), so c = |dLon| (both below 180 degrees).
HaversineAngle(lat1, lon1, lat2, lon2) ==
    CASE lon1 = lon2 -> toRadians(Abs(lat2 - lat1))
      [] lon1 # lon2 /\ lat1 = 0 /\ lat2 = 0 -> toRadians(Abs(lon2 - lon1))

calculateDistance(lat1, lon1, lat2, lon2) ==
    EARTH_RADIUS_KM * HaversineAngle(lat1, lon1, lat2, lon2)

\* radiusKm * degLatPerKm with degLatPerKm = 1 / 111.32
degLatPerKm(radiusKm) == (radiusKm * 1000000) \div 11132

calculateBoundingBox(latitude, longitude, radiusKm) ==
    LET latDelta == degLatPerKm(radiusKm)
        lonDelta == (latDelta * 10000) \div Cos(latitude)
    IN  [minLat |-> latitude - latDelta, minLng |-> longitude - lonDelta,
         maxLat |-> latitude + latDelta, maxLng |-> longitude + lonDelta]

\* a response that carries data
DataResponse(op, code, msg, data) == [op |-> op, code |-> code, msg |-> msg, data |-> data]

\* req.query: the parameters present; radius defaults to 5
Given(q, name) == name \in DOMAIN q
DefaultRadius == 5

\* Location.findAll({ where: latitude BETWEEN .. AND longitude BETWEEN .. })
LocationsInBox(d, box) ==
    {l \in DOMAIN d.locations :
        /\ box.minLat <= d.locations[l].latitude /\ d.locations[l].latitude <= box.maxLat
        /\ box.minLng <= d.locations[l].longitude /\ d.locations[l].longitude <= box.maxLng}

\* the handler does not read validationResult(req): the only request it
\* refuses is one without latitude or longitude
getNearbyIssues(d, q) ==
    IF ~Given(q, "latitude") \/ ~Given(q, "longitude")
    THEN DataResponse("getNearbyIssues", 400, "Latitude and longitude are required", {})
    ELSE LET lat == q.latitude
             lng == q.longitude
             radiusKm == IF Given(q, "radius") THEN q.radius ELSE DefaultRadius
             box == calculateBoundingBox(lat, lng, radiusKm)
             locationIdsInRadius ==
                 {l \in LocationsInBox(d, box) :
                     calculateDistance(lat, lng, d.locations[l].latitude,
                                       d.locations[l].longitude) <= radiusKm * 1000000}
         IN  DataResponse("getNearbyIssues", 200, "Nearby issues retrieved successfully",
                 {i \in DOMAIN d.issues : d.issues[i].locationId \in locationIdsInRadius})

\* query strings: each parameter absent or one of a few values
QueryValues(name) ==
    CASE name = "latitude" -> QueryLatitudes
      [] name = "longitude" -> {0, 1810000}
      [] name = "radius" -> {100, 50, 0, -1}

Queries ==
    UNION {{q \in [given -> UNION {QueryValues(n) : n \in given}] :
               \A n \in given : q[n] \in QueryValues(n)} :
           given \in SUBSET {"latitude", "longitude", "radius"}}

GetNearbyIssuesCall ==
    \E q \in Queries :
        /\ reply' = getNearbyIssues(DB, q)
        /\ UNCHANGED <<tables, procs, client>>

\* places on the equator and on the prime meridian, around (0, 0)
Offsets == {0, 4000, 8980, 8990, 9000, -8990}
Places == {[latitude |-> o, longitude |-> 0] : o \in Offsets}
              \cup {[latitude |-> 0, longitude |-> o] : o \in Offsets}

\* each issue of the store at its own location
InitNear ==
    /\ issues = [i \in IssueIds |->
                    [InitIssue(i) EXCEPT !.locationId =
                        IF i = "i1" THEN LocName(1) ELSE LocName(2)]]
    /\ locations \in [{LocName(1), LocName(2)} -> Places]
    /\ statusLogs = <<InitLog("i1"), InitLog("i2")>>
    /\ flags = <<>>
    /\ statusRequests = <<>>
    /\ reply = Response("none", 0, "")
    /\ procs = [p \in Procs |-> [pc |-> "idle"]]
    /\ client = InitClient

NextNear == GetNearbyIssuesCall

SpecNear == InitNear /\ [][NextNear]_vars

\* ------------------------------------------- status-request workflow
\* a review that changes the state and records neither reviewer nor comment
Reviewed_StateOnly(req, u, state, comment) == [req EXCEPT !.status = state]

RequestStates == {"pending", "approved", "rejected"}
ReviewActions == {"approve", "reject"}
ReviewFailures == {"none", "request", "log", "issue", "commit"}

\* a request that records the status asked for as the current one
NewStatusRequest_RequestedAsCurrent(d, id, u, requested, reason) ==
    [issueId |-> id, requestedBy |-> u, currentStatus |-> requested,
     requestedStatus |-> requested, reason |-> reason, status |-> "pending",
     reviewedBy |-> Null, reviewComment |-> Null]

NewStatusRequest(d, id, u, requested, reason) ==
    [issueId |-> id, requestedBy |-> u, currentStatus |-> d.issues[id].status,
     requestedStatus |-> requested, reason |-> reason, status |-> "pending",
     reviewedBy |-> Null, reviewComment |-> Null]

requestChange(d, u, id, requested, reason, rid) ==
    IF requested \notin IssueStatus
    THEN [db |-> d, reply |-> badRequestResponse("requestChange", "Validation error")]
    ELSE IF id \notin DOMAIN d.issues
    THEN [db |-> d, reply |-> notFoundResponse("requestChange", "Issue not found")]
    ELSE [db |-> [d EXCEPT !.statusRequests =
                      rid :> NewStatusRequest(d, id, u, requested, reason) @@ @],
          reply |-> createdResponse("requestChange", "Status request created")]

RequestChangeCall ==
    \E u \in Users, id \in IssueIds, requested \in IssueStatus \cup {"bogus"},
       reason \in Reasons, rid \in ReqIds :
        /\ rid \notin DOMAIN statusRequests
        /\ LET out == requestChange(DB, u, id, requested, reason, rid)
           IN  SetDB(out.db) /\ reply' = out.reply
        /\ UNCHANGED <<procs, client>>

\* a review that takes a request in any state
ReviewOpen_Always(req) == TRUE

\* only a pending request can be reviewed
ReviewOpen(req) == req.status = "pending"

Reviewed(req, u, state, comment) ==
    [req EXCEPT !.status = state, !.reviewedBy = u, !.reviewComment = comment]

\* LifecycleManager.changeStatus: the status-only update of updateIssue
changeStatus(d, u, id, newStatus, comment, fail) ==
    updateIssue(d, u, id,
                [title |-> Absent, status |-> newStatus, coord |-> Absent,
                 statusComment |-> comment, files |-> FALSE],
                fail)

review(d, u, rid, action, comment, fail) ==
    IF Role(u) # "admin"
    THEN [db |-> d, reply |-> forbiddenResponse("review", "Forbidden")]
    ELSE IF rid \notin DOMAIN d.statusRequests
    THEN [db |-> d, reply |-> notFoundResponse("review", "Status request not found")]
    ELSE LET req == d.statusRequests[rid] IN
      IF ~ReviewOpen(req)
      THEN [db |-> d, reply |-> conflictResponse("review", "Status request already reviewed")]
      ELSE IF fail = "request"
      THEN [db |-> d, reply |-> errorResponse("review", "Error reviewing")]
      ELSE IF action = "reject"
      THEN [db |-> [d EXCEPT !.statusRequests[rid] = Reviewed(req, u, "rejected", comment)],
            reply |-> successResponse("review", "Status request rejected")]
      ELSE LET w1 == [d EXCEPT !.statusRequests[rid] = Reviewed(req, u, "approved", comment)]
               out == changeStatus(w1, u, req.issueId, req.requestedStatus, comment, fail)
           IN  IF out.reply.code = 200
               THEN [db |-> out.db,
                     reply |-> successResponse("review", "Status request approved")]
               ELSE [db |-> Rollback(d, w1),
                     reply |-> errorResponse("review", "Error reviewing")]

ReviewCall ==
    \E u \in Users, rid \in ReqIds, action \in ReviewActions,
       comment \in Comments \cup {Absent}, fail \in ReviewFailures :
        /\ LET out == review(DB, u, rid, action, comment, fail)
           IN  /\ Len(out.db.statusLogs) <= MaxLogs
               /\ SetDB(out.db) /\ reply' = out.reply
        /\ UNCHANGED <<procs, client>>

\* a status-only update, as the admin dashboard and the review send it
ChangeStatusCall ==
    \E u \in Users, id \in IssueIds, newStatus \in IssueStatus :
        /\ LET out == changeStatus(DB, u, id, newStatus, Absent, "none")
           IN  /\ Len(out.db.statusLogs) <= MaxLogs
               /\ SetDB(out.db) /\ reply' = out.reply
        /\ UNCHANGED <<procs, client>>

\* ------------------------------------------------ two requests in flight
\* Each request is a chain of awaited queries; another request may run
\* between two of them. Statements of an open transaction are buffered in
\* the request and reach the tables at commit (READ COMMITTED).
Idle == [pc |-> "idle"]
InFlight(pcs) == {q \in Procs : procs[q].pc \in pcs}
UpdatePcs == {"update_log", "update_issue", "update_commit"}

StatusBody(status) ==
    [title |-> Absent, status |-> status, coord |-> Absent,
     statusComment |-> Absent, files |-> FALSE]

\* row locks on issue id held by requests other than p: the exclusive lock
\* of an uncommitted UPDATE or DELETE of the row, and the key-share lock of
\* an uncommitted insert that references it
DeleteHolds(id, p) ==
    \E q \in Procs \ {p} : procs[q].pc = "delete_commit" /\ procs[q].id = id
ExclusiveOn(id, p) ==
    \/ DeleteHolds(id, p)
    \/ \E q \in Procs \ {p} :
          procs[q].pc = "update_commit" /\ procs[q].locked /\ procs[q].id = id
SharedOn(id, p) ==
    \E q \in Procs \ {p} :
        /\ procs[q].pc \in {"update_issue", "update_commit"}
        /\ procs[q].log # <<>>
        /\ procs[q].id = id

\* sequelize.transaction(), Issue.findByPk without a lock, the authorization check
ConcUpdateBegin(p) ==
    \E u \in Users, id \in IssueIds, status \in IssueStatus :
        /\ procs[p].pc = "idle"
        /\ Len(statusLogs) + Cardinality(InFlight(UpdatePcs)) < MaxConcLogs
        /\ UNCHANGED tables
        /\ IF id \notin DOMAIN issues
           THEN /\ reply' = notFoundResponse("updateIssue", "Issue not found")
                /\ UNCHANGED <<procs, client>>
           ELSE IF UpdateForbidden(issues[id], u)
           THEN /\ reply' = badRequestResponse("updateIssue",
                                "You are not authorized to update this issue")
                /\ UNCHANGED <<procs, client>>
           ELSE /\ UNCHANGED client /\ procs' = [procs EXCEPT ![p] =
                       [pc |-> "update_log", u |-> u, id |-> id,
                        body |-> StatusBody(status), issue |-> issues[id],
                        log |-> <<>>, locked |-> FALSE]]
                /\ UNCHANGED reply

\* StatusLog.create inside the transaction, from the status read at the start
ConcUpdateLog(p) ==
    LET r == procs[p] IN
    /\ r.pc = "update_log"
    /\ StatusChanges(r.issue, r.body) =>
           r.id \in DOMAIN issues /\ ~DeleteHolds(r.id, p)
    /\ UNCHANGED client /\ procs' = [procs EXCEPT ![p].pc = "update_issue",
                              ![p].log = IF StatusChanges(r.issue, r.body)
                                         THEN <<UpdateLog(r.issue, r.id, r.u, r.body)>>
                                         ELSE <<>>]
    /\ UNCHANGED <<tables, reply>>

\* issue.update: the UPDATE of the changed columns waits for the row lock
ConcUpdateIssue(p) ==
    LET r == procs[p]
        writes == r.body.status # r.issue.status /\ r.id \in DOMAIN issues
    IN  /\ r.pc = "update_issue"
        /\ r.body.status # r.issue.status => ~ExclusiveOn(r.id, p)
        /\ UNCHANGED client /\ procs' = [procs EXCEPT ![p].pc = "update_commit", ![p].locked = writes]
        /\ UNCHANGED <<tables, reply>>

\* transaction.commit: the buffered statements reach the tables
ConcUpdateCommit(p) ==
    LET r == procs[p] IN
    /\ r.pc = "update_commit"
    /\ statusLogs' = statusLogs \o r.log
    /\ issues' = IF r.locked THEN [issues EXCEPT ![r.id].status = r.body.status]
                 ELSE issues
    /\ UNCHANGED client /\ procs' = [procs EXCEPT ![p] = Idle]
    /\ reply' = successResponse("updateIssue", "Issue updated successfully")
    /\ UNCHANGED <<locations, flags, statusRequests>>

\* a query of the transaction rejects: transaction.rollback and 500
ConcUpdateRollback(p) ==
    /\ procs[p].pc \in UpdatePcs
    /\ UNCHANGED client /\ procs' = [procs EXCEPT ![p] = Idle]
    /\ reply' = errorResponse("updateIssue", "Error updating issue")
    /\ UNCHANGED tables

\* Issue.findByPk and Flag.findOne of flagIssue
ConcFlagCheck(p) ==
    \E u \in Users, id \in IssueIds, reason \in Reasons :
        /\ procs[p].pc = "idle"
        /\ Len(flags) + Cardinality(InFlight({"flag_insert"})) < MaxConcFlags
        /\ UNCHANGED tables
        /\ IF id \notin DOMAIN issues
           THEN /\ reply' = notFoundResponse("flagIssue", "Issue not found")
                /\ UNCHANGED <<procs, client>>
           ELSE IF existingFlag(DB, id, u)
           THEN /\ reply' = badRequestResponse("flagIssue",
                                "You have already flagged this issue")
                /\ UNCHANGED <<procs, client>>
           ELSE /\ UNCHANGED client /\ procs' = [procs EXCEPT ![p] =
                       [pc |-> "flag_insert", u |-> u, id |-> id, reason |-> reason]]
                /\ UNCHANGED reply

\* Flag.create of flagIssue, outside any transaction
ConcFlagInsert(p) ==
    LET r == procs[p] IN
    /\ r.pc = "flag_insert"
    /\ ~DeleteHolds(r.id, p)
    /\ UNCHANGED client /\ procs' = [procs EXCEPT ![p] = Idle]
    /\ \E fail \in FlagFailures :
        IF fail = "flag" \/ ~FlagValid(NewFlag(r.id, r.u, r.reason), DB)
        THEN /\ reply' = errorResponse("flagIssue", "Error flagging issue")
             /\ UNCHANGED tables
        ELSE /\ flags' = Append(flags, NewFlag(r.id, r.u, r.reason))
             /\ reply' = successResponse("flagIssue", "Issue flagged successfully")
             /\ UNCHANGED <<issues, locations, statusLogs, statusRequests>>

\* ------------------------------------------- deleteIssue in flight
\* Issue.findByPk and the authorization check, before the transaction
ConcDeleteBegin(p) ==
    \E u \in Users, id \in IssueIds :
        /\ procs[p].pc = "idle"
        /\ UNCHANGED tables
        /\ IF id \notin DOMAIN issues
           THEN /\ reply' = notFoundResponse("deleteIssue", "Issue not found")
                /\ UNCHANGED <<procs, client>>
           ELSE IF DeleteForbidden(issues[id], u)
           THEN /\ reply' = badRequestResponse("deleteIssue",
                                "You are not authorized to delete this issue")
                /\ UNCHANGED <<procs, client>>
           ELSE /\ UNCHANGED client /\ procs' = [procs EXCEPT ![p] =
                       [pc |-> "delete_rows", id |-> id, issue |-> issues[id]]]
                /\ UNCHANGED reply

\* StatusLog.destroy and Flag.destroy: the rows committed so far
ConcDeleteRows(p) ==
    /\ procs[p].pc = "delete_rows"
    /\ UNCHANGED client /\ procs' = [procs EXCEPT ![p].pc = "delete_issue"]
    /\ UNCHANGED <<tables, reply>>

\* issue.destroy: waits for the locks other transactions hold on the row
ConcDeleteIssue(p) ==
    LET r == procs[p] IN
    /\ r.pc = "delete_issue"
    /\ ~ExclusiveOn(r.id, p) /\ ~SharedOn(r.id, p)
    /\ UNCHANGED client /\ procs' = [procs EXCEPT ![p].pc = "delete_commit"]
    /\ UNCHANGED <<tables, reply>>

\* Location.destroy and transaction.commit: the rows destroyed, and those a
\* request committed in between, which the foreign key (ON DELETE CASCADE,
\* the default of hasMany for a non-null key) removes with the issue
ConcDeleteCommit(p) ==
    LET r == procs[p]
        w == DeleteAfterIssue(DeleteAfterFlags(DeleteAfterLogs(DB, r.id), r.id), r.id)
    IN  /\ r.pc = "delete_commit"
        /\ SetDB(DeleteAfterLocation(w, r.issue.locationId))
        /\ reply' = successResponse("deleteIssue", "Issue deleted successfully")
        /\ UNCHANGED client /\ procs' = [procs EXCEPT ![p] = Idle]

ConcDeleteRollback(p) ==
    /\ procs[p].pc \in {"delete_rows", "delete_issue", "delete_commit"}
    /\ UNCHANGED client /\ procs' = [procs EXCEPT ![p] = Idle]
    /\ reply' = errorResponse("deleteIssue", "Error deleting issue")
    /\ UNCHANGED tables

\* requestChange while other requests are in flight: the insert waits for a
\* delete that holds the issue row
ConcRequestChange ==
    \E u \in {"u2"}, id \in IssueIds, requested \in {IN_PROGRESS},
       reason \in Reasons, rid \in ReqIds :
        /\ rid \notin DOMAIN statusRequests
        /\ ~DeleteHolds(id, 0)
        /\ LET out == requestChange(DB, u, id, requested, reason, rid)
           IN  SetDB(out.db) /\ reply' = out.reply
        /\ UNCHANGED <<procs, client>>

\* ------------------------------------------------ two reviews in flight
\* review as one transaction at the store's default isolation: the request
\* is read without a lock, its UPDATE takes the row lock until commit
ReviewRefusals == {403, 404, 409}

ConcReviewRead(p) ==
    \E u \in Users, rid \in ReqIds, action \in ReviewActions,
       comment \in Comments \cup {Absent} :
        /\ procs[p].pc = "idle"
        /\ UNCHANGED tables
        /\ LET out == review(DB, u, rid, action, comment, "none")
           IN  IF out.reply.code \in ReviewRefusals
               THEN reply' = out.reply /\ UNCHANGED <<procs, client>>
               ELSE /\ UNCHANGED client /\ procs' = [procs EXCEPT ![p] =
                           [pc |-> "review_write", u |-> u, rid |-> rid,
                            action |-> action, comment |-> comment,
                            req |-> statusRequests[rid]]]
                    /\ UNCHANGED reply

\* the UPDATE of the request row and, on approve, changeStatus; both wait
\* for the row lock of a review that has written and not yet committed
ConcReviewWrite(p) ==
    LET r == procs[p]
        read == [DB EXCEPT !.statusRequests[r.rid] = r.req]
        out == review(read, r.u, r.rid, r.action, r.comment, "none")
    IN  /\ r.pc = "review_write"
        /\ \A q \in Procs \ {p} : ~(procs[q].pc = "review_commit" /\ procs[q].rid = r.rid)
        /\ Len(out.db.statusLogs) <= MaxConcLogs
        /\ UNCHANGED client /\ procs' = [procs EXCEPT ![p] =
               [pc |-> "review_commit", rid |-> r.rid, req |-> r.req,
                work |-> out.db, reply |-> out.reply]]
        /\ UNCHANGED <<tables, reply>>

ConcReviewCommit(p) ==
    LET r == procs[p] IN
    /\ r.pc = "review_commit"
    /\ SetDB(r.work)
    /\ reply' = r.reply
    /\ UNCHANGED client /\ procs' = [procs EXCEPT ![p] = Idle]

\* ------------------------------------------------------ errors of a call
\* what a rejected call carries: the status of the response (NoResponse when
\* there is none), error.code, error.message and the errorCode api.ts adds
NoResponse == 0
ApiError(status, code, message, errorCode) ==
    [status |-> status, code |-> code, message |-> message, errorCode |-> errorCode]

Errors ==
    {ApiError(NoResponse, "ERR_NETWORK", "Network Error", Undefined),
     ApiError(NoResponse, "ECONNABORTED", "timeout of 30000ms exceeded", Undefined),
     ApiError(500, "ERR_BAD_RESPONSE", "Request failed with status code 500", Undefined),
     ApiError(404, "ERR_BAD_REQUEST", "Request failed with status code 404", Undefined),
     ApiError(503, "ERR_BAD_RESPONSE", "Request failed with status code 503", "NETWORK_ERROR"),
     ApiError(504, "ERR_BAD_RESPONSE", "Gateway timeout", Undefined)}

Values == {"v1", "v2"}

\* ------------------------------------------------------------- withRetry
\* One call of withRetry(fn, { maxRetries }). calls counts the invocations of
\* fn and settled lists how each one ended; both are observations, the loop
\* reads neither. The delay between attempts is finite and is left out.
MaxRetries == 2
Fulfilled(v) == [ok |-> TRUE, value |-> v]
Failed(e) == [ok |-> FALSE, value |-> e]

NewRetry(fn, maxRetries) ==
    [fn |-> fn, pc |-> "start", maxRetries |-> maxRetries, attempt |-> 0,
     lastError |-> Null, calls |-> 0, settled |-> <<>>, outcome |-> Null]

Returns(r, v) == [r EXCEPT !.pc = "returned", !.outcome = v]
Throws(r, e) == [r EXCEPT !.pc = "thrown", !.outcome = e]
Invokes(r) == [r EXCEPT !.pc = "await_fn", !.calls = @ + 1]

\* a loop that goes round once more than it should
WithRetryEnter_OneMore(r) ==
    IF r.attempt < r.maxRetries + 2 THEN Invokes(r) ELSE Throws(r, r.lastError)

\* for (...; attempt < config.maxRetries + 1; ...) { return await fn() } and,
\* past the loop, throw lastError
WithRetryEnter(r) ==
    IF r.attempt < r.maxRetries + 1 THEN Invokes(r) ELSE Throws(r, r.lastError)

WithRetry == client.retry.fn = "withRetry"

WithRetryStart ==
    /\ WithRetry /\ client.retry.pc = "start"
    /\ client' = [client EXCEPT !.retry = WithRetryEnter(@)]
    /\ UNCHANGED <<tables, reply, procs>>

\* the promise of fn fulfils: return await fn()
WithRetryResolved ==
    \E v \in Values :
        /\ WithRetry /\ client.retry.pc = "await_fn"
        /\ client' = [client EXCEPT !.retry =
               Returns([@ EXCEPT !.settled = Append(@, Fulfilled(v))], v)]
        /\ UNCHANGED <<tables, reply, procs>>

\* the promise of fn rejects: catch, then break on the last attempt or wait
WithRetryRejected ==
    \E error \in Errors :
        /\ WithRetry /\ client.retry.pc = "await_fn"
        /\ LET r == [client.retry EXCEPT !.settled = Append(@, Failed(error)),
                                         !.lastError = error]
           IN  client' = [client EXCEPT !.retry =
                   IF r.attempt >= r.maxRetries THEN Throws(r, r.lastError)
                   ELSE [r EXCEPT !.pc = "delay"]]
        /\ UNCHANGED <<tables, reply, procs>>

\* the timer fires: attempt++ and the loop condition
WithRetryDelayed ==
    /\ WithRetry /\ client.retry.pc = "delay"
    /\ client' = [client EXCEPT !.retry = WithRetryEnter([@ EXCEPT !.attempt = @ + 1])]
    /\ UNCHANGED <<tables, reply, procs>>

\* a store with no rows, for the specifications of the client
InitNoRows ==
    /\ issues = <<>> /\ locations = <<>>
    /\ statusLogs = <<>> /\ flags = <<>> /\ statusRequests = <<>>
    /\ reply = Response("none", 0, "")
    /\ procs = [p \in Procs |-> [pc |-> "idle"]]

InitWithRetry ==
    /\ InitNoRows
    /\ \E maxRetries \in -1..MaxRetries :
        client = [InitClient EXCEPT !.retry = NewRetry("withRetry", maxRetries)]

NextWithRetry ==
    \/ WithRetryStart
    \/ WithRetryResolved
    \/ WithRetryRejected
    \/ WithRetryDelayed

\* every promise of fn settles and every timer fires
SpecWithRetry == InitWithRetry /\ [][NextWithRetry]_vars /\ WF_vars(NextWithRetry)

\* ------------------------------------------------------ retryWithBackoff
\* message.includes(part), for the messages of Errors
Includes(message, part) ==
    <<message, part>> \in {<<"Network Error", "Network Error">>,
                          <<"timeout of 30000ms exceeded", "timeout">>,
                          <<"Gateway timeout", "timeout">>}

isNetworkError(error) ==
    \/ error.status = NoResponse
    \/ error.code = "ECONNABORTED"
    \/ Includes(error.message, "Network Error")
    \/ Includes(error.message, "network error")
    \/ Includes(error.message, "timeout")
    \/ error.errorCode = "NETWORK_ERROR"
    \/ error.errorCode = "TIMEOUT_ERROR"

\* while (retries <= maxRetries) { return await fn() } and, past the loop,
\* throw lastError; attempt holds retries
BackoffEnter(r) ==
    IF r.attempt <= r.maxRetries THEN Invokes(r) ELSE Throws(r, r.lastError)

\* a catch block that retries whatever the error
BackoffCatch_AnyError(r, error) ==
    LET c == [r EXCEPT !.lastError = error]
    IN  IF c.attempt >= c.maxRetries THEN Throws(c, c.lastError)
        ELSE [c EXCEPT !.pc = "delay"]

\* catch (error): rethrow what is no network error, break on the last retry,
\* wait otherwise
BackoffCatch(r, error) ==
    LET c == [r EXCEPT !.lastError = error]
    IN  IF ~isNetworkError(error) THEN Throws(c, error)
        ELSE IF c.attempt >= c.maxRetries THEN Throws(c, c.lastError)
        ELSE [c EXCEPT !.pc = "delay"]

Backoff == client.retry.fn = "retryWithBackoff"

BackoffStart ==
    /\ Backoff /\ client.retry.pc = "start"
    /\ client' = [client EXCEPT !.retry = BackoffEnter(@)]
    /\ UNCHANGED <<tables, reply, procs>>

BackoffResolved ==
    \E v \in Values :
        /\ Backoff /\ client.retry.pc = "await_fn"
        /\ client' = [client EXCEPT !.retry =
               Returns([@ EXCEPT !.settled = Append(@, Fulfilled(v))], v)]
        /\ UNCHANGED <<tables, reply, procs>>

BackoffRejected ==
    \E error \in Errors :
        /\ Backoff /\ client.retry.pc = "await_fn"
        /\ client' = [client EXCEPT !.retry =
               BackoffCatch([@ EXCEPT !.settled = Append(@, Failed(error))], error)]
        /\ UNCHANGED <<tables, reply, procs>>

\* the timer fires: retries++ and the loop condition
BackoffDelayed ==
    /\ Backoff /\ client.retry.pc = "delay"
    /\ client' = [client EXCEPT !.retry = BackoffEnter([@ EXCEPT !.attempt = @ + 1])]
    /\ UNCHANGED <<tables, reply, procs>>

InitBackoff ==
    /\ InitNoRows
    /\ \E maxRetries \in -1..MaxRetries :
        client = [InitClient EXCEPT !.retry = NewRetry("retryWithBackoff", maxRetries)]

NextBackoff ==
    \/ BackoffStart
    \/ BackoffResolved
    \/ BackoffRejected
    \/ BackoffDelayed

SpecBackoff == InitBackoff /\ [][NextBackoff]_vars /\ WF_vars(NextBackoff)

\* ------------------------------------------ createRetryableAxiosInstance
\* One request sent through the instance. sends counts the times it went out
\* and failure is the error of the latest failed send; both are observations.
\* retryCount is the x-retry-count header, 0 standing for a header not set.
retryStatusCodes == {408, 429, 500, 502, 503, 504, 520, 521, 522, 523, 524}

NewRequest(maxRetries, retryNetworkErrors) ==
    [pc |-> "sent", maxRetries |-> maxRetries,
     retryNetworkErrors |-> retryNetworkErrors, retryCount |-> 0, sends |-> 1,
     failure |-> Null, outcome |-> Null]

shouldRetryStatusCode(error) ==
    error.status # NoResponse /\ error.status \in retryStatusCodes

\* !response && (code === 'ECONNABORTED' || (code !== 'ECONNABORTED' &&
\* retryNetworkErrors))
isNetworkFailure(q, error) ==
    error.status = NoResponse /\
        (error.code = "ECONNABORTED" \/
            (error.code # "ECONNABORTED" /\ q.retryNetworkErrors))

\* a retry decision that does not look at the retry count
shouldRetry_Unlimited(q, error) ==
    shouldRetryStatusCode(error) \/ isNetworkFailure(q, error)

shouldRetry(q, error) ==
    (shouldRetryStatusCode(error) \/ isNetworkFailure(q, error))
        /\ q.retryCount < q.maxRetries

\* the response arrives: the success handler returns it as it is
RequestSucceeded ==
    \E v \in Values :
        /\ client.request.pc = "sent"
        /\ client' = [client EXCEPT !.request.pc = "resolved", !.request.outcome = v]
        /\ UNCHANGED <<tables, reply, procs>>

\* the send fails: the error handler rejects with the error, or waits
RequestFailed ==
    \E error \in Errors, hasConfig \in BOOLEAN :
        /\ client.request.pc = "sent"
        /\ LET q == [client.request EXCEPT !.failure = error]
           IN  client' = [client EXCEPT !.request =
                   IF ~hasConfig \/ ~shouldRetry(q, error)
                   THEN [q EXCEPT !.pc = "rejected", !.outcome = error]
                   ELSE [q EXCEPT !.pc = "delay"]]
        /\ UNCHANGED <<tables, reply, procs>>

\* the timer fires: x-retry-count = retryCount + 1 and instance(config)
RequestResent ==
    /\ client.request.pc = "delay"
    /\ client' = [client EXCEPT !.request.pc = "sent",
                                !.request.retryCount = @ + 1,
                                !.request.sends = @ + 1]
    /\ UNCHANGED <<tables, reply, procs>>

InitRequest ==
    /\ InitNoRows
    /\ \E maxRetries \in 0..MaxRetries, retryNetworkErrors \in BOOLEAN :
        client = [InitClient EXCEPT !.request = NewRequest(maxRetries, retryNetworkErrors)]

NextRequest ==
    \/ RequestSucceeded
    \/ RequestFailed
    \/ RequestResent

SpecRequest == InitRequest /\ [][NextRequest]_vars

\* -------------------------------------------------------- useAuthProvider
\* auth holds localStorage's token (present or not), the AuthState of the
\* provider and the calls of getCurrentUser, login and register in flight.
MaxInFlight == 2
AuthUsers == {"u1", "u2"}

SetAuthState(a, user, isAuthenticated, loading, error) ==
    [a EXCEPT !.user = user, !.isAuthenticated = isAuthenticated,
              !.loading = loading, !.error = error]

SignedOut(a) == SetAuthState(a, Null, FALSE, FALSE, Null)

\* checkAuth up to its await: with a token getCurrentUserApi.execute() sends
\* GET /auth/me, without one the state is reset
checkAuth(a) ==
    IF a.token THEN [a EXCEPT !.me = @ + 1] ELSE SignedOut(a)

\* authService.logout: removeItem('token') and a storage event, which the
\* provider's listener answers with checkAuth
authServiceLogout(a) == checkAuth([a EXCEPT !.token = FALSE])

\* onSuccess of the three useApi hooks
onSuccess(a, user) == SetAuthState(a, user, TRUE, FALSE, Null)

Auth == client.auth
SetAuth(a) ==
    /\ a.me <= MaxInFlight
    /\ client' = [client EXCEPT !.auth = a]
    /\ UNCHANGED <<tables, reply, procs>>

\* the effect runs on mount, with or without a token left by an earlier visit
AuthMount ==
    \E token \in BOOLEAN :
        /\ ~Auth.mounted
        /\ SetAuth(checkAuth([Auth EXCEPT !.mounted = TRUE, !.token = token]))

\* another tab stores or removes the token: handleStorageChange
StorageChanged ==
    /\ Auth.mounted
    /\ SetAuth(checkAuth([Auth EXCEPT !.token = ~@]))

\* GET /auth/me answers: onSuccess(user)
MeResolved ==
    \E user \in AuthUsers :
        /\ Auth.me > 0
        /\ SetAuth(onSuccess([Auth EXCEPT !.me = @ - 1], user))

\* GET /auth/me fails. api rejects with the standardized error, which has no
\* response, so getCurrentUser throws its network error; extractErrorMessage
\* keeps the message only, and onError, finding neither an errorCode nor
\* 'Network error' or 'timeout' in it, resets the state and logs out
MeRejected ==
    /\ Auth.me > 0
    /\ SetAuth(authServiceLogout(SignedOut([Auth EXCEPT !.me = @ - 1])))

\* login(credentials) and register(userData): clearError, loading, execute
LoginCalled ==
    /\ Auth.mounted /\ Auth.login = 0
    /\ SetAuth([Auth EXCEPT !.error = Null, !.loading = TRUE, !.login = 1])

RegisterCalled ==
    /\ Auth.mounted /\ Auth.register = 0
    /\ SetAuth([Auth EXCEPT !.error = Null, !.loading = TRUE, !.register = 1])

\* authService.login stores the token and dispatches the storage event;
\* then onSuccess(data)
LoginResolved ==
    \E user \in AuthUsers :
        /\ Auth.login = 1
        /\ SetAuth(onSuccess(checkAuth([Auth EXCEPT !.login = 0, !.token = TRUE]), user))

\* authService.register stores the token; then onSuccess(data)
RegisterResolved ==
    \E user \in AuthUsers :
        /\ Auth.register = 1
        /\ SetAuth(onSuccess([Auth EXCEPT !.register = 0, !.token = TRUE], user))

\* onError of login and register
LoginRejected ==
    /\ Auth.login = 1
    /\ SetAuth([Auth EXCEPT !.login = 0, !.isAuthenticated = FALSE,
                            !.loading = FALSE, !.error = "Invalid email or password"])

RegisterRejected ==
    /\ Auth.register = 1
    /\ SetAuth([Auth EXCEPT !.register = 0, !.isAuthenticated = FALSE,
                            !.loading = FALSE, !.error = "Validation error"])

\* logout(): authService.logout() and the state reset
Logout ==
    /\ Auth.mounted
    /\ SetAuth(SignedOut(authServiceLogout(Auth)))

InitAuth == InitNoRows /\ client = InitClient

NextAuth ==
    \/ AuthMount
    \/ StorageChanged
    \/ MeResolved
    \/ MeRejected
    \/ LoginCalled
    \/ LoginResolved
    \/ LoginRejected
    \/ RegisterCalled
    \/ RegisterResolved
    \/ RegisterRejected
    \/ Logout

SpecAuth == InitAuth /\ [][NextAuth]_vars

\* ---------------------------------------------------------------- useApi
\* One useApi hook. calls lists the execute calls in the order they started:
\* whether each is in flight, resolved or rejected, what it settled with and
\* which earlier calls were in flight when it started; data, loading and
\* error are the hook's state.
MaxCalls == 2
Messages == {"m1", "m2"}

Hook == client.hook
Pending(h) == {i \in DOMAIN h.calls : h.calls[i].st = "flight"}

\* extractErrorMessage of a plain Error
extractErrorMessage(message) == [message |-> message]

SetHook(h) ==
    /\ client' = [client EXCEPT !.hook = h]
    /\ UNCHANGED <<tables, reply, procs>>

\* execute up to its await: setState(prev => ...) and apiCall(...params)
Execute ==
    /\ Len(Hook.calls) < MaxCalls
    /\ SetHook([Hook EXCEPT
           !.data = IF Hook.resetOnFetch THEN Null ELSE @,
           !.loading = TRUE,
           !.error = Null,
           !.calls = Append(@, [st |-> "flight", result |-> Null,
                                during |-> Pending(Hook)])])

\* the promise of call i resolves: setState({ data, loading: false, error: null })
ExecuteResolved ==
    \E i \in Pending(Hook), data \in Values :
        SetHook([Hook EXCEPT
            !.data = data, !.loading = FALSE, !.error = Null,
            !.calls[i] = [@ EXCEPT !.st = "resolved", !.result = data]])

\* the promise of call i rejects: setState({ data: null, loading: false, error })
ExecuteRejected ==
    \E i \in Pending(Hook), message \in Messages :
        SetHook([Hook EXCEPT
            !.data = Null, !.loading = FALSE,
            !.error = extractErrorMessage(message),
            !.calls[i] = [@ EXCEPT !.st = "rejected",
                                   !.result = extractErrorMessage(message)]])

InitHook ==
    /\ InitNoRows
    /\ \E resetOnFetch \in BOOLEAN :
           client = [InitClient EXCEPT !.hook.resetOnFetch = resetOnFetch]

NextHook == Execute \/ ExecuteResolved \/ ExecuteRejected

SpecHook == InitHook /\ [][NextHook]_vars

\* -------------------------------------------------------- specification
Next ==
    \/ CreateIssueCall
    \/ UpdateIssueCall
    \/ DeleteIssueCall
    \/ FlagIssueCall

Spec == Init /\ [][Next]_vars

NextReview ==
    \/ RequestChangeCall
    \/ ReviewCall
    \/ ChangeStatusCall
    \/ DeleteIssueCall

SpecReview == Init /\ [][NextReview]_vars

NextConc ==
    \E p \in Procs :
        \/ ConcUpdateBegin(p)
        \/ ConcUpdateLog(p)
        \/ ConcUpdateIssue(p)
        \/ ConcUpdateCommit(p)
        \/ ConcUpdateRollback(p)
        \/ ConcFlagCheck(p)
        \/ ConcFlagInsert(p)

SpecConc == Init /\ [][NextConc]_vars

\* updates of any fields, one request at a time
NextFields ==
    \/ UpdateFieldsCall
    \/ FlagIssueCall

SpecFields == Init /\ [][NextFields]_vars

\* status changes, flags and deletes, one request at a time
NextDelete ==
    \/ ChangeStatusCall
    \/ FlagIssueCall
    \/ DeleteIssueCall

SpecDelete == Init /\ [][NextDelete]_vars

\* flags raised and resolved next to status changes and deletes
NextFlags ==
    \/ FlagIssueCall
    \/ ResolveFlagCall
    \/ ChangeStatusCall
    \/ DeleteIssueCall

SpecFlags == Init /\ [][NextFlags]_vars

\* room for one more log row, one more flag, within MaxLogs and MaxFlags
RoomForLog == Len(statusLogs) + Cardinality(InFlight(UpdatePcs)) < MaxLogs
RoomForFlag == Len(flags) + Cardinality(InFlight({"flag_insert"})) < MaxFlags

NextConcDelete ==
    \/ ConcRequestChange
    \/ \E p \in Procs :
        \/ RoomForLog /\ ConcUpdateBegin(p)
        \/ ConcUpdateLog(p)
        \/ ConcUpdateIssue(p)
        \/ ConcUpdateCommit(p)
        \/ ConcUpdateRollback(p)
        \/ RoomForFlag /\ ConcFlagCheck(p)
        \/ ConcFlagInsert(p)
        \/ ConcDeleteBegin(p)
        \/ ConcDeleteRows(p)
        \/ ConcDeleteIssue(p)
        \/ ConcDeleteCommit(p)
        \/ ConcDeleteRollback(p)

SpecConcDelete == Init /\ [][NextConcDelete]_vars

NextReviewConc ==
    \/ RequestChangeCall
    \/ \E p \in Procs :
        \/ ConcReviewRead(p)
        \/ ConcReviewWrite(p)
        \/ ConcReviewCommit(p)

SpecReviewConc == Init /\ [][NextReviewConc]_vars

TypeOK ==
    /\ DOMAIN issues \subseteq IssueIds
    /\ \A i \in DOMAIN issues : issues[i].status \in IssueStatus
    /\ DOMAIN locations \subseteq LocIds
    /\ Len(statusLogs) <= MaxConcLogs
    /\ Len(flags) <= MaxConcFlags
    /\ DOMAIN statusRequests \subseteq ReqIds

\* ================================================================ claims
IsReporter(i, u) == u = issues[i].reportedBy
Outsiders(i) == {u \in Users : ~IsReporter(i, u) /\ Role(u) # "admin"}

Chain(logs, status) ==
    /\ Len(logs) >= 1
    /\ logs[1].oldStatus = Null
    /\ \A k \in 2..Len(logs) : logs[k].oldStatus = logs[k - 1].newStatus
    /\ logs[Len(logs)].newStatus = status

C2_StepAtomic(i) ==
    LET before == LogsOf(statusLogs, i)
        after == LogsOf(statusLogs', i)
    IN  IF issues'[i].status # issues[i].status
        THEN /\ Len(after) = Len(before) + 1
             /\ SubSeq(after, 1, Len(before)) = before
             /\ after[Len(after)].oldStatus = issues[i].status
             /\ after[Len(after)].newStatus = issues'[i].status
        ELSE after = before

C2_AtomicStatusChange ==
    [][reply'.op = "updateIssue" =>
         /\ reply'.code = 500 => UNCHANGED tables
         /\ DOMAIN issues' = DOMAIN issues
         /\ \A i \in DOMAIN issues : C2_StepAtomic(i)]_vars

C2_Witness ==
    /\ reply = errorResponse("updateIssue", "Error updating issue")
    /\ \E i \in DOMAIN issues : Len(LogsOf(statusLogs, i)) >= 2

\* C4: createIssue is all-or-nothing: after any createIssue call either the
\* Location, the Issue and the creation StatusLog all exist or none of them
\* was inserted.
C4_CreateAllOrNothing ==
    [][reply'.op = "createIssue" =>
         \/ UNCHANGED tables
         \/ /\ Cardinality(DOMAIN locations') = Cardinality(DOMAIN locations) + 1
            /\ Cardinality(DOMAIN issues') = Cardinality(DOMAIN issues) + 1
            /\ Len(statusLogs') = Len(statusLogs) + 1]_vars

\* C8: the authorization decision of updateIssue and of deleteIssue is true
\* iff the caller is the issue's reporter or an administrator; the reporter
\* without admin role is authorized.
C8_AuthDecision ==
    \A i \in DOMAIN issues : \A u \in Users :
        /\ ~UpdateForbidden(issues[i], u) <=> (IsReporter(i, u) \/ Role(u) = "admin")
        /\ ~DeleteForbidden(issues[i], u) <=> (IsReporter(i, u) \/ Role(u) = "admin")

ValidBodies == {b \in Bodies : UpdateValid(b)}
AlreadyFlagged == badRequestResponse("flagIssue", "You have already flagged this issue")
NotAuthorizedUpdate ==
    badRequestResponse("updateIssue", "You are not authorized to update this issue")
NotAuthorizedDelete ==
    badRequestResponse("deleteIssue", "You are not authorized to delete this issue")
JustFlagged == reply = successResponse("flagIssue", "Issue flagged successfully")

\* the outcome of repeating the flagIssue call that has just succeeded
C6_Second(P(_, _)) ==
    JustFlagged =>
        LET f == flags[Len(flags)] IN
        \A reason \in Reasons, fail \in FlagFailures :
            LET out == flagIssue(DB, f.userId, f.issueId, reason, fail)
                rows == FlagsOf(out.db.flags, f.issueId, f.userId)
            IN  /\ P(out, f)
                /\ out.db = DB
                /\ Len(rows) = 1
                /\ ~rows[1].resolved

C7_Outsider(P(_, _)) ==
    \A i \in DOMAIN issues : \A u \in Outsiders(i) :
        /\ \A body \in ValidBodies, fail \in UpdateFailures :
               LET out == updateIssue(DB, u, i, body, fail)
               IN  P(out.reply, NotAuthorizedUpdate) /\ out.db = DB
        /\ \A fail \in DeleteFailures :
               LET out == deleteIssue(DB, u, i, fail)
               IN  P(out.reply, NotAuthorizedDelete) /\ out.db = DB

Quiescent == \A p \in Procs : procs[p].pc = "idle"

\* C3: two concurrent updateIssue calls with a status on the same issue are
\* serialized: whenever no request is in flight, the issue's log rows chain
\* and end in the issue's current status, as after one of the serial orders.
C3_ConcurrentChain ==
    Quiescent => \A i \in DOMAIN issues : Chain(LogsOf(statusLogs, i), issues[i].status)

\* C5: in every reachable state, for every interleaving of flagIssue calls,
\* there is at most one Flag row per (issueId, userId) pair.
C5_OneFlagPerPair ==
    \A i \in IssueIds, u \in Users : Len(FlagsOf(flags, i, u)) <= 1

Approved == successResponse("review", "Status request approved")
Rejected == successResponse("review", "Status request rejected")
Appended(i) == Len(LogsOf(statusLogs', i)) - Len(LogsOf(statusLogs, i))

\* the review step that approves request r: it was pending, is now approved,
\* and its issue has the requested status
C9_Approves(r) ==
    /\ r \in DOMAIN statusRequests'
    /\ statusRequests[r].status = "pending"
    /\ statusRequests'[r].status = "approved"
    /\ issues'[statusRequests[r].issueId].status = statusRequests[r].requestedStatus

\* C9 (as claimed): approving a pending request for status X sets the request
\* to approved, leaves the issue's status equal to X and appends exactly one
\* StatusLog row to that issue.
C9_ApproveAppendsOne ==
    [][reply' = Approved =>
         \E r \in DOMAIN statusRequests :
             /\ C9_Approves(r)
             /\ Appended(statusRequests[r].issueId) = 1]_vars

\* C9 (amended): approving a pending request for status X sets the request to
\* approved and leaves the issue's status equal to X; it appends exactly one
\* StatusLog row (from the status before the review to X) when X differs from
\* that status, and no row when the issue already has status X.
C9_ApproveAppendsOnChange ==
    [][reply' = Approved =>
         \E r \in DOMAIN statusRequests :
             LET i == statusRequests[r].issueId
                 X == statusRequests[r].requestedStatus
                 after == LogsOf(statusLogs', i)
             IN  /\ C9_Approves(r)
                 /\ Appended(i) = (IF X # issues[i].status THEN 1 ELSE 0)
                 /\ SubSeq(after, 1, Len(after) - Appended(i)) = LogsOf(statusLogs, i)
                 /\ X # issues[i].status =>
                        /\ after[Len(after)].oldStatus = issues[i].status
                        /\ after[Len(after)].newStatus = X]_vars

C9_Witness ==
    /\ reply = Approved
    /\ \E r \in DOMAIN statusRequests :
        /\ statusRequests[r].status = "approved"
        /\ statusRequests[r].requestedStatus = REPORTED
        /\ Len(LogsOf(statusLogs, statusRequests[r].issueId)) = 1

\* C10: rejecting a pending request sets it to rejected with the reviewing
\* administrator and the review comment recorded, changes nothing else of
\* the request, and leaves issues, locations, logs and flags as they were.
C10_RejectLeavesIssue ==
    [][reply' = Rejected =>
         /\ UNCHANGED <<issues, locations, statusLogs, flags>>
         /\ DOMAIN statusRequests' = DOMAIN statusRequests
         /\ \E r \in DOMAIN statusRequests :
             /\ statusRequests[r].status = "pending"
             /\ \E u \in Users, comment \in Comments \cup {Absent} :
                 /\ Role(u) = "admin"
                 /\ statusRequests' = [statusRequests EXCEPT ![r] =
                        [@ EXCEPT !.status = "rejected", !.reviewedBy = u,
                                  !.reviewComment = comment]]]_vars

C10_Witness ==
    /\ reply = Rejected
    /\ \E r \in DOMAIN statusRequests :
        /\ statusRequests[r].status = "rejected"
        /\ statusRequests[r].reviewedBy = "admin"
        /\ statusRequests[r].reviewComment = "checked"
        /\ issues[statusRequests[r].issueId].status # statusRequests[r].requestedStatus

Settled(r) == statusRequests[r].status # "pending"
AlreadyReviewed == conflictResponse("review", "Status request already reviewed")

\* every review call that starts on a settled request is answered Conflict
\* and changes nothing
C11_LaterReviewsConflict ==
    \A r \in DOMAIN statusRequests : Settled(r) =>
        \A u \in Users, action \in ReviewActions,
           comment \in Comments \cup {Absent}, fail \in ReviewFailures :
            Role(u) = "admin" =>
                LET out == review(DB, u, r, action, comment, fail)
                IN  out.reply = AlreadyReviewed /\ out.db = DB

ReviewFailed == errorResponse("review", "Error reviewing")

\* C12: approval is atomic with the status change it causes. A review that
\* fails leaves every table as it was (the request stays pending, the issue
\* is unchanged); a review step that makes a request approved leaves the
\* issue in the requested status together with the log row of that change;
\* and a review that approves nothing changes no issue and no log.
C12_ApprovalAtomic ==
    [][reply'.op = "review" =>
         /\ reply' = ReviewFailed => UNCHANGED tables
         /\ DOMAIN statusRequests' = DOMAIN statusRequests
         /\ DOMAIN issues' = DOMAIN issues
         /\ \A r \in DOMAIN statusRequests :
                IF statusRequests'[r].status = "approved" /\ ~Settled(r)
                THEN LET i == statusRequests[r].issueId
                     IN  /\ issues'[i].status = statusRequests[r].requestedStatus
                         /\ C2_StepAtomic(i)
                         /\ \A j \in DOMAIN issues \ {i} :
                                issues'[j] = issues[j] /\ Appended(j) = 0
                ELSE statusRequests'[r].status # "approved" \/ Settled(r)
         /\ (\A r \in DOMAIN statusRequests :
                 statusRequests'[r].status = statusRequests[r].status)
              => UNCHANGED <<issues, statusLogs>>]_vars

C12_Witness ==
    /\ reply = ReviewFailed
    /\ \E r \in DOMAIN statusRequests :
        /\ statusRequests[r].status = "pending"
        /\ statusRequests[r].requestedStatus # issues[statusRequests[r].issueId].status

Deleted == successResponse("deleteIssue", "Issue deleted successfully")
NextDB == [issues |-> issues', locations |-> locations', statusLogs |-> statusLogs',
           flags |-> flags', statusRequests |-> statusRequests']

\* every well-formed lookup, update, flag or delete addressed to id is
\* answered 404 and changes nothing
AnswersNotFound(d, id) ==
    /\ getIssueById(d, id).code = 404
    /\ \A u \in Users :
        /\ \A body \in ValidBodies, fail \in UpdateFailures :
               LET out == updateIssue(d, u, id, body, fail)
               IN  out.reply.code = 404 /\ out.db = d
        /\ \A reason \in Reasons, fail \in FlagFailures :
               LET out == flagIssue(d, u, id, reason, fail)
               IN  out.reply.code = 404 /\ out.db = d
        /\ \A fail \in DeleteFailures :
               LET out == deleteIssue(d, u, id, fail)
               IN  out.reply.code = 404 /\ out.db = d

NoRowsOf(d, id) ==
    /\ id \notin DOMAIN d.issues
    /\ LogsOf(d.statusLogs, id) = <<>>
    /\ \A k \in 1..Len(d.flags) : d.flags[k].issueId # id

\* no row of an absent issue is left, and calls addressed to it get 404
GoneIsGone(d) ==
    \A id \in IssueIds \ DOMAIN d.issues : NoRowsOf(d, id) /\ AnswersNotFound(d, id)

\* C13: a successful deleteIssue removes the issue, its location, all its
\* status logs and all its flags; from then on the id stays absent and, in
\* the initial store and in every store a call leaves behind, every lookup,
\* update, flag or delete addressed to an absent id is answered NotFound.
C13_DeletedIsGone ==
    [][/\ reply.op = "none" => GoneIsGone(DB)
       /\ tables' # tables => GoneIsGone(NextDB)
       /\ reply' = Deleted =>
            \E id \in DOMAIN issues \ DOMAIN issues' :
                issues[id].locationId \notin DOMAIN locations'
       /\ \A id \in IssueIds \ DOMAIN issues : id \notin DOMAIN issues']_vars

C13_Witness ==
    /\ reply = Deleted
    /\ NoRowsOf(DB, "i1")
    /\ DOMAIN locations = {}

DeleteFailed == errorResponse("deleteIssue", "Error deleting issue")

\* C14: deleteIssue is all-or-nothing. A call that fails at any of its four
\* delete statements or at the commit leaves the issue, its location, its
\* logs and its flags as they were; a call that succeeds removes exactly the
\* issue with its location, logs and flags and nothing of another issue.
C14_DeleteAllOrNothing ==
    [][reply'.op = "deleteIssue" =>
         IF reply' = Deleted
         THEN \E id \in DOMAIN issues :
                 /\ NoRowsOf(NextDB, id)
                 /\ issues' = Remove(issues, id)
                 /\ locations' = Remove(locations, issues[id].locationId)
                 /\ statusLogs' = SelectSeq(statusLogs, LAMBDA r : r.issueId # id)
                 /\ flags' = SelectSeq(flags, LAMBDA r : r.issueId # id)
         ELSE UNCHANGED tables]_vars

C14_Witness ==
    /\ reply = DeleteFailed
    /\ \E i \in DOMAIN issues :
        /\ issues[i].locationId \in DOMAIN locations
        /\ Len(LogsOf(statusLogs, i)) >= 2
        /\ \E k \in 1..Len(flags) : flags[k].issueId = i

C16_LocationsOwned ==
    /\ \A l \in DOMAIN locations :
           Cardinality({i \in DOMAIN issues : issues[i].locationId = l}) = 1
    /\ \A i \in DOMAIN issues : issues[i].locationId \in DOMAIN locations

\* canMutate: the caller is the issue's reporter or an administrator
Authorized(i, u) == IsReporter(i, u) \/ Role(u) = "admin"
Updated == successResponse("updateIssue", "Issue updated successfully")
StatusComments == {Absent} \cup Comments

\* C17: an authorized status change to the issue's current status succeeds,
\* changes no status and writes no log; one to a different status succeeds
\* and writes exactly one log row, from the status before the call to the
\* requested one.
C17_StatusChangeOutcome ==
    \A i \in DOMAIN issues : \A u \in Users : Authorized(i, u) =>
        \A s \in IssueStatus, c \in StatusComments :
            LET out == changeStatus(DB, u, i, s, c, "none")
                old == issues[i].status
            IN  /\ out.reply = Updated
                /\ out.db.issues[i].status = s
                /\ IF s = old
                   THEN out.db = DB
                   ELSE /\ Len(out.db.statusLogs) = Len(statusLogs) + 1
                        /\ SubSeq(out.db.statusLogs, 1, Len(statusLogs)) = statusLogs
                        /\ LET row == out.db.statusLogs[Len(statusLogs) + 1]
                           IN  /\ row.issueId = i
                               /\ row.oldStatus = old
                               /\ row.newStatus = s

IsPrefix(a, b) == Len(a) <= Len(b) /\ SubSeq(b, 1, Len(a)) = a

C19_AnyTransition ==
    \A i \in DOMAIN issues :
        /\ issues[i].status \in IssueStatus
        /\ \A u \in Users :
            /\ Authorized(i, u) =>
                 \A t \in IssueStatus \ {issues[i].status} :
                     LET out == changeStatus(DB, u, i, t, Absent, "none")
                     IN  out.reply = Updated /\ out.db.issues[i].status = t
            /\ LET out == changeStatus(DB, u, i, "bogus", Absent, "none")
               IN  /\ out.reply = badRequestResponse("updateIssue", "Validation error")
                   /\ out.db = DB

\* C20: StatusLog is append-only: a step leaves the log rows of every issue
\* that still exists as a prefix of its rows afterwards, and the rows of an
\* issue disappear only in the deleteIssue step that removes the issue.
C20_LogAppendOnly ==
    [][\A i \in DOMAIN issues :
         IF i \in DOMAIN issues'
         THEN IsPrefix(LogsOf(statusLogs, i), LogsOf(statusLogs', i))
         ELSE reply' = Deleted]_vars

C20_Witness ==
    /\ reply = successResponse("flagIssue", "Issue flagged successfully")
    /\ \E i \in DOMAIN issues : Len(LogsOf(statusLogs, i)) >= 2

RequestCreated == createdResponse("requestChange", "Status request created")

\* every user may request a change of an existing issue to a valid status
AnyUserMayRequest ==
    \A u \in Users, id \in DOMAIN issues, requested \in IssueStatus,
       rid \in ReqIds \ DOMAIN statusRequests :
        requestChange(DB, u, id, requested, "spam", rid).reply = RequestCreated

\* C21: requestChange by any user inserts one pending StatusRequest whose
\* currentStatus is the issue's status at the time of the call and changes
\* neither the issue's status nor its StatusLog rows; no later step changes
\* the currentStatus of a request.
C21_RequestSnapshot ==
    /\ []AnyUserMayRequest
    /\ [][/\ reply' = RequestCreated =>
              /\ UNCHANGED <<issues, locations, statusLogs, flags>>
              /\ \E rid \in ReqIds \ DOMAIN statusRequests :
                  /\ DOMAIN statusRequests' = DOMAIN statusRequests \cup {rid}
                  /\ statusRequests'[rid].status = "pending"
                  /\ statusRequests'[rid].issueId \in DOMAIN issues
                  /\ statusRequests'[rid].currentStatus =
                         issues[statusRequests'[rid].issueId].status
          /\ \A r \in DOMAIN statusRequests \cap DOMAIN statusRequests' :
              statusRequests'[r].currentStatus = statusRequests[r].currentStatus]_vars

\* a pending request whose issue has since moved away from the snapshot
C21_Witness ==
    \E r \in DOMAIN statusRequests :
        /\ statusRequests[r].status = "pending"
        /\ statusRequests[r].issueId \in DOMAIN issues
        /\ statusRequests[r].currentStatus # issues[statusRequests[r].issueId].status
        /\ statusRequests[r].requestedBy = "u2"

FlagResolved == successResponse("resolveFlag", "Flag resolved")

\* a caller who is not an administrator resolves no flag
ResolveAdminOnly ==
    \A u \in Users, flagId \in 1..(MaxFlags + 1) :
        Role(u) # "admin" =>
            resolveFlag(DB, u, flagId) =
                [db |-> DB, reply |-> forbiddenResponse("resolveFlag", "Forbidden")]

\* C22: resolveFlag is administrator-only and sets the flag's resolved to
\* true; it changes no issue and appends no StatusLog row, and flagIssue
\* changes no issue and no StatusLog row either.
C22_FlagsLeaveStatus ==
    /\ []ResolveAdminOnly
    /\ [][/\ reply'.op \in {"resolveFlag", "flagIssue"} =>
              UNCHANGED <<issues, locations, statusLogs, statusRequests>>
          /\ reply'.op = "resolveFlag" /\ reply' # FlagResolved => UNCHANGED flags
          /\ reply' = FlagResolved =>
              \E k \in 1..Len(flags) :
                  /\ flags' = [flags EXCEPT ![k].resolved = TRUE]
                  /\ flags'[k].resolved]_vars

\* a flag was resolved while its issue is still as it was reported
C22_Witness ==
    /\ reply = FlagResolved
    /\ \E k \in 1..Len(flags) :
        /\ flags[k].resolved
        /\ flags[k].issueId \in DOMAIN issues
        /\ issues[flags[k].issueId].status = REPORTED
        /\ LogsOf(statusLogs, flags[k].issueId) = <<InitLog(flags[k].issueId)>>

\* HTTP 404 with the handlers' message
IssueNotFound(op) == Response(op, 404, "Issue not found")

\* every well-formed update, delete and flag addressed to id, by any caller
\* and whatever the store would do later, is answered NotFound and changes
\* nothing
MissingIsNotFound(d, id) ==
    \A u \in Users :
        /\ \A body \in ValidBodies, fail \in UpdateFailures :
               updateIssue(d, u, id, body, fail) =
                   [db |-> d, reply |-> IssueNotFound("updateIssue")]
        /\ \A fail \in DeleteFailures :
               deleteIssue(d, u, id, fail) =
                   [db |-> d, reply |-> IssueNotFound("deleteIssue")]
        /\ \A reason \in Reasons, fail \in FlagFailures :
               flagIssue(d, u, id, reason, fail) =
                   [db |-> d, reply |-> IssueNotFound("flagIssue")]

\* C23: updateIssue, deleteIssue and flagIssue addressed to an issue id that
\* does not exist are answered NotFound for every caller, the outsider who
\* would fail the authorization check included, and a step answered NotFound
\* creates, changes and deletes no row.
C23_MissingIssueNotFound ==
    /\ [](\A id \in IssueIds \ DOMAIN issues : MissingIsNotFound(DB, id))
    /\ [][reply'.code = 404 /\ reply'.op \in {"updateIssue", "deleteIssue", "flagIssue"}
              => reply' = IssueNotFound(reply'.op) /\ UNCHANGED tables]_vars

\* a status update addressed to an id when the store holds no issue
C23_Witness ==
    /\ reply = IssueNotFound("updateIssue")
    /\ "i1" \notin DOMAIN issues
    /\ DOMAIN issues = {}

\* the searches the validation admits, centred on (0, 0)
ValidQueries ==
    {q \in Queries : /\ DOMAIN q = {"latitude", "longitude", "radius"}
                     /\ q.latitude = 0 /\ q.longitude = 0 /\ q.radius > 0}

\* the locations at great-circle distance <= radius from the centre
InCircle(d, q) ==
    {l \in DOMAIN d.locations :
        calculateDistance(q.latitude, q.longitude, d.locations[l].latitude,
                          d.locations[l].longitude) <= q.radius * 1000000}

\* C24: findNear returns exactly the issues whose Location lies at
\* great-circle distance <= radiusKm from the centre; the bounding box holds
\* every location of the circle.
C24_NearIsCircle ==
    \A q \in ValidQueries :
        /\ InCircle(DB, q) \subseteq
               LocationsInBox(DB, calculateBoundingBox(q.latitude, q.longitude, q.radius))
        /\ getNearbyIssues(DB, q).data =
               {i \in DOMAIN issues : issues[i].locationId \in InCircle(DB, q)}

\* getNearbyIssuesValidation's ranges for the coordinates, and the radius
\* the search needs
OutOfRange(q) ==
    \/ q.latitude < -900000 \/ q.latitude > 900000
    \/ q.longitude < -1800000 \/ q.longitude > 1800000
    \/ Given(q, "radius") /\ q.radius <= 0

\* C25: findNear rejects, returning no issue, every call whose latitude is
\* outside [-90, 90], whose longitude is outside [-180, 180] or whose radius
\* is not greater than 0, and accepts every other call.
C25_NearValidates ==
    \A q \in Queries :
        Given(q, "latitude") /\ Given(q, "longitude") =>
            LET out == getNearbyIssues(DB, q)
            IN  IF OutOfRange(q) THEN out.code = 400 /\ out.data = {}
                ELSE out.code = 200

Ended(r) == r.pc \in {"returned", "thrown"}
Last(seq) == seq[Len(seq)]
AllFailed(seq) == \A k \in 1..Len(seq) : ~seq[k].ok

\* what holds of a retry loop r at every moment: fn was invoked calls
\* times, at most limit times; only the latest invocation can have
\* succeeded, and then the loop has returned its value; a loop that has
\* thrown after invoking fn throws the error of the latest invocation
RetryLoopOK(r, limit) ==
    /\ r.calls <= limit
    /\ Len(r.settled) = (IF r.pc = "await_fn" THEN r.calls - 1 ELSE r.calls)
    /\ \A k \in 1..Len(r.settled) :
           r.settled[k].ok => k = Len(r.settled) /\ r.pc = "returned"
    /\ r.pc = "returned" => Last(r.settled) = Fulfilled(r.outcome)
    /\ r.pc = "thrown" /\ r.calls > 0 => Last(r.settled) = Failed(r.outcome)

\* C26: withRetry ends; it invokes fn at most maxRetries + 1 times, returns
\* the result of the first invocation that succeeds without invoking fn
\* again, and when every invocation fails, which takes maxRetries + 1 of
\* them, throws the error of the last one.
C26_WithRetryEnds ==
    /\ <>Ended(client.retry)
    /\ [](LET r == client.retry
          IN  /\ RetryLoopOK(r, IF r.maxRetries < 0 THEN 0 ELSE r.maxRetries + 1)
              /\ r.pc = "thrown" /\ r.maxRetries >= 0 =>
                     r.calls = r.maxRetries + 1 /\ AllFailed(r.settled))
    /\ [][Ended(client.retry) => UNCHANGED client]_vars

\* thrown after two failures with different errors and the retries used up
C26_Witness ==
    LET r == client.retry
    IN  /\ r.fn = "withRetry" /\ r.pc = "thrown" /\ r.maxRetries = 1
        /\ r.calls = 2
        /\ r.settled[1] # r.settled[2]

\* C27: retryWithBackoff retries only on network errors. A failure that is
\* no network error is rethrown at once, fn not being invoked again; with
\* network errors fn is invoked at most maxRetries + 1 times and the last
\* error is thrown; a success ends the loop with its result.
C27_BackoffNetworkOnly ==
    /\ <>Ended(client.retry)
    /\ [](LET r == client.retry
          IN  /\ RetryLoopOK(r, IF r.maxRetries < 0 THEN 0 ELSE r.maxRetries + 1)
              /\ \A k \in 1..Len(r.settled) :
                     ~r.settled[k].ok /\ ~isNetworkError(r.settled[k].value) =>
                         /\ k = Len(r.settled)
                         /\ r.pc = "thrown" /\ r.outcome = r.settled[k].value
              /\ r.pc = "thrown" /\ r.calls > 0 /\ isNetworkError(r.outcome) =>
                     r.calls = r.maxRetries + 1)
    /\ [][Ended(client.retry) => UNCHANGED client]_vars

\* a network error was retried and the next failure, an HTTP 404, was
\* rethrown with a retry to spare
C27_Witness ==
    LET r == client.retry
    IN  /\ r.fn = "retryWithBackoff" /\ r.pc = "thrown" /\ r.maxRetries = 2
        /\ r.calls = 2
        /\ isNetworkError(r.settled[1].value)
        /\ r.outcome.status = 404

Resends == client.request.pc = "delay" /\ client'.request.pc = "sent"

\* what holds of every request: it went out once and then once per retry,
\* at most maxRetries times; a rejected request is rejected with the error
\* of its latest send
RequestOK ==
    LET q == client.request
    IN  /\ q.retryCount = q.sends - 1
        /\ q.sends - 1 <= q.maxRetries
        /\ q.pc = "rejected" => q.outcome = q.failure

\* a re-send raises x-retry-count by exactly 1, after fewer than maxRetries
\* re-sends; no other step sends or touches the header
ResendOK ==
    /\ Resends =>
        /\ client'.request.retryCount = client.request.retryCount + 1
        /\ client'.request.sends = client.request.sends + 1
        /\ client.request.sends - 1 < client.request.maxRetries
    /\ ~Resends =>
        /\ client'.request.sends = client.request.sends
        /\ client'.request.retryCount = client.request.retryCount

\* the failure waiting to be re-sent has a status of retryStatusCodes, or
\* no response while network-error retry is enabled
RetryableAsClaimed ==
    LET q == client.request
    IN  \/ q.failure.status \in retryStatusCodes
        \/ q.failure.status = NoResponse /\ q.retryNetworkErrors

\* ... or no response and the code of a timeout
RetryableOrTimeout ==
    LET q == client.request
    IN  \/ q.failure.status \in retryStatusCodes
        \/ q.failure.status = NoResponse /\
               (q.retryNetworkErrors \/ q.failure.code = "ECONNABORTED")

\* C28 (as claimed): a failed response is re-sent only if the retry count is
\* below maxRetries and either its status is in retryStatusCodes or it has
\* no response and network-error retry is enabled; each re-send raises
\* x-retry-count by 1, a request is re-sent at most maxRetries times, and a
\* failure that is not retried is rejected with the original error.
C28_ResendIfEnabled ==
    /\ []RequestOK
    /\ [][ResendOK /\ (Resends => RetryableAsClaimed)]_vars

\* C28 (amended): as claimed, except that a failure without a response is
\* also re-sent when its code is ECONNABORTED (a timeout), whether or not
\* network-error retry is enabled.
C28_ResendOrTimeout ==
    /\ []RequestOK
    /\ [][ResendOK /\ (Resends => RetryableOrTimeout)]_vars

\* a request re-sent as often as allowed and then rejected with an error
\* that could have been retried
C28_Witness ==
    LET q == client.request
    IN  /\ q.pc = "rejected" /\ q.maxRetries = 2 /\ q.sends = 3
        /\ q.outcome.status = 503

\* C29: in every reachable state of the auth provider isAuthenticated is
\* true only if user is non-null and a token is present in storage.
C29_AuthenticatedHasToken ==
    client.auth.isAuthenticated => client.auth.user # Null /\ client.auth.token

\* C30: when two execute calls of one hook overlap, once both have settled
\* data and error are those of the call started last, and loading is false
\* only when no call is in flight.
DataOf(call) == IF call.st = "resolved" THEN call.result ELSE Null
ErrorOf(call) == IF call.st = "rejected" THEN call.result ELSE Null
C30_LastStartedWins ==
    LET h == client.hook IN
    /\ ~h.loading => Pending(h) = {}
    /\ /\ Len(h.calls) = 2
       /\ h.calls[2].during = {1}
       /\ Pending(h) = {}
       => h.data = DataOf(h.calls[2]) /\ h.error = ErrorOf(h.calls[2])
====
